---- MODULE Spec2Model ----
(***************************************************************************)
(* Model of monitor/monitor.py: the MonitorCPU / MonitorGPU sampler        *)
(* threads, their start/stop/scope lifecycle, the time-series log they     *)
(* build, and the averaging done by MonitorCPU.plot.                       *)
(*                                                                         *)
(* Two execution contexts are modelled: the creating context (the caller   *)
(* of the constructor, start, stop, the with-statement and plot) and the   *)
(* background thread executing run().  Time is a global integer clock      *)
(* (perf_counter) advanced by Tick; a blocked thread wakes no earlier than *)
(* its wake-up time.  The import of the package, and the Runtime and       *)
(* BufferTime scopes of the calling context, are modelled next to them.    *)
(***************************************************************************)
EXTENDS Integers, Sequences, FiniteSets, TLC

VARIABLES
    now,          \* time.perf_counter(), in ticks
    overrun,      \* TRUE: the scheduler may delay a runnable thread
    mpc,          \* creating context: "new", "ready", "block"
    caller_exc,   \* exception the last operation raised to the caller
    block_raised, \* whether the last with-body left by raising
    kind,         \* "cpu" (MonitorCPU), "gpu" (MonitorGPU), "none"
    delay,        \* self.delay
    buffer_time,  \* self._buffer_time
    cpu_count,    \* self._cpu_count
    stopped,      \* self.stopped
    log,          \* self.log
    time_log,     \* self.time_log
    start_time,   \* self.start_time
    started,      \* Thread._started
    bgpc,         \* background thread: position in run()
    wake,         \* clock value at which the blocked background thread wakes
    stop_len,     \* history: <<len(log), len(time_log)>> at the first stop()
    plot_out,     \* outcome of the last MonitorCPU.plot() call
    spawned,      \* history: number of run() contexts ever spawned
    early_stop,   \* history: stop() was called before start()
    gputil,       \* whether the GPUtil backend can be imported
    pkg,          \* import of the package: "unloaded", "loaded", "failed"
    GPU,          \* monitor._GPU
    exports,      \* names the package monitor exports
    rt_pc,        \* Runtime: "new", "made", "block", "exited"
    rt_message,   \* Runtime._message
    rt_start_time, \* Runtime._start_time (<<>> is None, <<t>> a value)
    rt_end_time,  \* Runtime._end_time
    rt_elapsed,   \* Runtime._elapsed
    rt_out,       \* what Runtime.__exit__ printed last
    rt_exc,       \* exception that left the Runtime scope to the caller
    bt_pc,        \* BufferTime: "new", "made", "entering", "block",
                  \* "exiting", "exited"
    bt_buffer,    \* BufferTime._buffer_time
    bt_wake,      \* clock value at which the sleeping caller wakes
    bt_raised,    \* whether the BufferTime with-body left by raising
    bt_exc,       \* exception that left the BufferTime scope to the caller
    bt_hist       \* history: clock at scope entry, body begin, body end
                  \* and scope exit

vars == <<now, overrun, mpc, caller_exc, block_raised, kind, delay,
          buffer_time, cpu_count, stopped, log, time_log, start_time,
          started, bgpc, wake, stop_len, plot_out, spawned, early_stop,
          gputil, pkg, GPU, exports, rt_pc, rt_message, rt_start_time, rt_end_time,
          rt_elapsed, rt_out, rt_exc, bt_pc, bt_buffer, bt_wake, bt_raised,
          bt_exc, bt_hist>>

sampler == <<kind, delay, buffer_time, cpu_count, start_time>>

thread == <<started, spawned>>

stop_hist == <<stop_len, early_stop>>

package == <<gputil, pkg, GPU, exports>>

timer == <<rt_pc, rt_message, rt_start_time, rt_end_time, rt_elapsed,
           rt_out, rt_exc>>

span == <<bt_pc, bt_buffer, bt_wake, bt_raised, bt_exc, bt_hist>>

\* what no operation of a Sampler touches
env == <<overrun, package, timer, span>>

\* the Sampler, its thread and its caller
monitor == <<mpc, caller_exc, block_raised, sampler, stopped, log, time_log,
             thread, bgpc, wake, stop_hist, plot_out>>

----------------------------------------------------------------------------
(* Bounds of the model *)

MaxLog == 2
MaxTime == 2

(* Inputs *)

Kinds == {"cpu", "gpu"}
Delays == {-1, 0, 1, 2}
Buffers == {-1, 0, 1}
CoreCounts == {2}
Percent == {10, 42}

NoStop == <<-1, -1>>
None == <<>>
NoHist == [entered |-> -1, begun |-> -1, ended |-> -1, left |-> -1]
NaN == <<0, 0>>

----------------------------------------------------------------------------
(* Helpers *)

RECURSIVE SumSeq(_)
SumSeq(s) == IF s = <<>> THEN 0 ELSE Head(s) + SumSeq(Tail(s))

\* numpy.mean of a 1-d selection, kept exact as <<sum, count>>; the mean of
\* an empty selection is nan (count 0).
Mean(s) == IF s = <<>> THEN NaN ELSE <<SumSeq(s), Len(s)>>

IsFinite(m) == m[2] > 0

\* Readings a UsageSource query can return: per-core percentages for
\* psutil.cpu_percent(percpu=True), a scalar for GPUtil's load * 100.
\* The CPU readings tried are a constant load on every core, and one with
\* the first core at a different load.
Readings(k, n) ==
    IF k = "cpu"
    THEN {[c \in 1..n |-> IF c = 1 THEN v ELSE 42] : v \in Percent}
    ELSE Percent

----------------------------------------------------------------------------
(* MonitorCPU.plot: the averaging *)

GridRows == 3
GridCols == 4

NotComputed == <<-1, -1>>
NoPlot == [err |-> "nocall", at |-> "none", total |-> NotComputed,
           cores |-> <<>>, times |-> <<>>, rows |-> <<>>]

\* logical_and(buffer < time_array, time_array < time_array[-1] - buffer)
Mask(times, b, i) == b < times[i] /\ times[i] < times[Len(times)] - b

\* vals[mask]: the entries of vals at the positions the mask selects
RECURSIVE Masked(_, _, _, _)
Masked(times, vals, b, i) ==
    IF i > Len(times) THEN <<>>
    ELSE (IF Mask(times, b, i) THEN <<vals[i]>> ELSE <<>>)
         \o Masked(times, vals, b, i + 1)

\* sum(data, axis=1): the per-sample total over the channels
RowSums(data) == [i \in 1..Len(data) |-> SumSeq(data[i])]

\* data[:, c] with c counted from 0
Column(data, c) == [i \in 1..Len(data) |-> data[i][c + 1]]

\* the title of the stack plot: mean(sum(data[mask], axis=1))
TotalMean(times, data, b) == Mean(Masked(times, RowSums(data), b, 1))

\* the title of panel c: mean(data[:, c][mask])
CoreMean(times, data, b, c) == Mean(Masked(times, Column(data, c), b, 1))

\* "for i, ind in enumerate(ndindex(3, 4))": panels 0..11 in order; the
\* loop breaks when i > cpu_count, and data[:, i] raises IndexError when
\* the readings have no channel i.
RECURSIVE PanelLoop(_, _, _, _, _, _)
PanelLoop(times, data, b, n, i, acc) ==
    IF i >= GridRows * GridCols THEN [err |-> "none", cores |-> acc]
    ELSE IF i > n THEN [err |-> "none", cores |-> acc]
    ELSE IF i >= Len(data[1]) THEN [err |-> "IndexError", cores |-> acc]
    ELSE PanelLoop(times, data, b, n, i + 1,
                   Append(acc, CoreMean(times, data, b, i)))

\* plot() on time_log = times, log = rows: self.time_log[-1] raises
\* IndexError on an empty time log; the guard raises ValueError; stackplot
\* raises ValueError when time_array and data differ in length; then the
\* averages.  "at" is the place that raised.
PlotResult(times, rows, b, n) ==
    LET read == [NoPlot EXCEPT !.times = times, !.rows = rows]
    IN  IF times = <<>>
        THEN [read EXCEPT !.err = "IndexError", !.at = "guard"]
        ELSE IF 2 * b > times[Len(times)]
        THEN [read EXCEPT !.err = "ValueError", !.at = "guard"]
        ELSE IF Len(rows) # Len(times)
        THEN [read EXCEPT !.err = "ValueError", !.at = "stackplot"]
        ELSE LET loop == PanelLoop(times, rows, b, n, 0, <<>>)
             IN  [read EXCEPT !.err = loop.err,
                              !.at = IF loop.err = "none" THEN "none"
                                     ELSE "panel",
                              !.total = TotalMean(times, rows, b),
                              !.cores = loop.cores]

----------------------------------------------------------------------------
(* Initial state: no Sampler constructed yet *)

Init ==
    /\ now = 0
    /\ overrun \in BOOLEAN
    /\ mpc = "new"
    /\ caller_exc = "none"
    /\ block_raised = FALSE
    /\ kind = "none"
    /\ delay = 0
    /\ buffer_time = 0
    /\ cpu_count = 0
    /\ stopped = FALSE
    /\ log = <<>>
    /\ time_log = <<>>
    /\ start_time = 0
    /\ started = FALSE
    /\ bgpc = "idle"
    /\ wake = 0
    /\ stop_len = NoStop
    /\ plot_out = NoPlot
    /\ spawned = 0
    /\ early_stop = FALSE
    /\ gputil \in BOOLEAN
    /\ pkg = "unloaded"
    /\ GPU = FALSE
    /\ exports = {}
    /\ rt_pc = "new"
    /\ rt_message = ""
    /\ rt_start_time = None
    /\ rt_end_time = None
    /\ rt_elapsed = None
    /\ rt_out = "nothing"
    /\ rt_exc = "none"
    /\ bt_pc = "new"
    /\ bt_buffer = 0
    /\ bt_wake = 0
    /\ bt_raised = FALSE
    /\ bt_exc = "none"
    /\ bt_hist = NoHist

----------------------------------------------------------------------------
(* Import of the package *)

\* a variant of ImportCaught: the try statement without its except clause
ImportCaught_Missing == FALSE

\* monitor.py wraps "import GPUtil" and the MonitorGPU class in
\* try/except ImportError
ImportCaught == TRUE

\* _GPU after monitor.py has run: False at the top of the module, set to
\* True at the end of the try block, which is reached when GPUtil imports
ModuleGPU(avail) == avail

\* the names monitor/__init__.py imports from .monitor
PackageExports(flag) ==
    {"BufferTime", "MonitorCPU", "Runtime", "_GPU"}
    \cup (IF flag THEN {"MonitorGPU"} ELSE {})

\* "import monitor"
LoadPackage ==
    /\ pkg = "unloaded"
    /\ IF ~gputil /\ ~ImportCaught
       THEN /\ pkg' = "failed"
            /\ caller_exc' = "ImportError"
            /\ UNCHANGED <<GPU, exports>>
       ELSE /\ pkg' = "loaded"
            /\ caller_exc' = "none"
            /\ GPU' = ModuleGPU(gputil)
            /\ exports' = PackageExports(GPU')
    /\ UNCHANGED <<now, overrun, gputil, timer, span, mpc, block_raised, sampler,
                   stopped, log, time_log, thread, bgpc, wake, stop_hist,
                   plot_out>>

----------------------------------------------------------------------------
(* Creating context *)

\* MonitorCPU.__init__(delay, buffer) / MonitorGPU.__init__(delay): the
\* arguments are stored as given; nothing is validated.
Construct(k, d, b, n) ==
    /\ mpc = "new"
    /\ (IF k = "gpu" THEN "MonitorGPU" ELSE "MonitorCPU") \in exports
    /\ mpc' = "ready"
    /\ kind' = k
    /\ stopped' = FALSE
    /\ delay' = d
    /\ log' = <<>>
    /\ time_log' = <<>>
    /\ start_time' = now
    /\ cpu_count' = n
    /\ buffer_time' = b
    /\ caller_exc' = "none"
    /\ UNCHANGED <<now, env, block_raised, thread, bgpc, wake,
                   stop_hist, plot_out>>

\* a variant of ThreadStart: start() without the started-once check
ThreadStart_Restart ==
    /\ caller_exc' = "none"
    /\ started' = TRUE
    /\ spawned' = spawned + 1
    /\ bgpc' = "check"

\* a variant of ThreadStart: run() entered past its first loop test
ThreadStart_SkipTest ==
    IF started
    THEN /\ caller_exc' = "RuntimeError"
         /\ UNCHANGED <<thread, bgpc>>
    ELSE /\ caller_exc' = "none"
         /\ started' = TRUE
         /\ spawned' = spawned + 1
         /\ bgpc' = "query"

\* Thread.start(): a thread can be started only once (RuntimeError
\* otherwise); the new thread begins run() at the loop test.
ThreadStart ==
    IF started
    THEN /\ caller_exc' = "RuntimeError"
         /\ UNCHANGED <<thread, bgpc>>
    ELSE /\ caller_exc' = "none"
         /\ started' = TRUE
         /\ spawned' = spawned + 1
         /\ bgpc' = "check"

\* a direct call of start()
Start ==
    /\ mpc = "ready"
    /\ ThreadStart
    /\ UNCHANGED <<now, env, mpc, block_raised, sampler, stopped, log,
                   time_log, wake, stop_hist, plot_out>>

\* a variant of StopBody: stop() toggling the flag
StopBody_Toggle ==
    /\ stopped' = ~stopped
    /\ stop_len' = IF stop_len = NoStop
                   THEN <<Len(log), Len(time_log)>> ELSE stop_len
    /\ early_stop' = (early_stop \/ ~started)

\* the body of stop(): self.stopped = True
StopBody ==
    /\ stopped' = TRUE
    /\ stop_len' = IF stop_len = NoStop
                   THEN <<Len(log), Len(time_log)>> ELSE stop_len
    /\ early_stop' = (early_stop \/ ~started)

\* a direct call of stop(), from outside or inside a with-body
Stop ==
    /\ mpc \in {"ready", "block"}
    /\ StopBody
    /\ caller_exc' = "none"
    /\ UNCHANGED <<now, env, mpc, block_raised, sampler, log, time_log,
                   thread, bgpc, wake, plot_out>>

\* "with monitor:" -- __enter__ calls start(); when start() raises, the
\* with-body is not entered and __exit__ is not called.
Enter ==
    /\ mpc = "ready"
    /\ ThreadStart
    /\ mpc' = IF started THEN "ready" ELSE "block"
    /\ UNCHANGED <<now, env, block_raised, sampler, stopped, log,
                   time_log, wake, stop_hist, plot_out>>

\* a variant of ExitReturn: __exit__ returning a true value
ExitReturn_Truthy == TRUE

\* value returned by __exit__ (no return statement: None, which is falsy);
\* a truthy value would make the with-statement swallow the exception.
ExitReturn == FALSE

\* the with-body ends, normally or by raising (raised); __exit__ calls
\* stop(), and the with-statement re-raises unless __exit__ returned true.
ExitScope(raised) ==
    /\ mpc = "block"
    /\ StopBody
    /\ mpc' = "ready"
    /\ block_raised' = raised
    /\ caller_exc' = IF raised /\ ~ExitReturn THEN "BlockError" ELSE "none"
    /\ UNCHANGED <<now, env, sampler, log, time_log, thread, bgpc,
                   wake, plot_out>>

\* a call of MonitorCPU.plot()
Plot ==
    /\ mpc = "ready"
    /\ kind = "cpu"
    /\ plot_out' = PlotResult(time_log, log, buffer_time, cpu_count)
    /\ caller_exc' = plot_out'.err
    /\ UNCHANGED <<now, env, mpc, block_raised, sampler, stopped, log,
                   time_log, thread, bgpc, wake, stop_hist>>

----------------------------------------------------------------------------
(* Background thread: run() *)

\* the error state of the thread that the Sampler keeps for its creator:
\* run() has no handler and the class no attribute for one
ErrorRecorded == FALSE

Terminated == bgpc \in {"done", "query_raised", "sleep_raised"}

\* psutil.cpu_percent(interval) blocks for interval when interval > 0;
\* GPUtil.getGPUs() does not block.
QueryBlocks == IF kind = "cpu" /\ delay > 0 THEN delay ELSE 0

\* a variant of BgCheck: the loop test does not read self.stopped
BgCheck_Blind ==
    /\ bgpc = "check"
    /\ Len(log) < MaxLog
    /\ bgpc' = "query"
    /\ wake' = now + QueryBlocks
    /\ UNCHANGED <<now, env, mpc, caller_exc, block_raised, sampler,
                   stopped, log, time_log, thread, stop_hist, plot_out>>

\* "while not self.stopped:"
BgCheck ==
    /\ bgpc = "check"
    /\ IF stopped
       THEN /\ bgpc' = "done"
            /\ wake' = wake
       ELSE /\ Len(log) < MaxLog
            /\ bgpc' = "query"
            /\ wake' = now + QueryBlocks
    /\ UNCHANGED <<now, env, mpc, caller_exc, block_raised, sampler,
                   stopped, log, time_log, thread, stop_hist, plot_out>>

\* the query returns reading r, which is appended to self.log
\* (cpu_percent raises ValueError for a negative interval)
BgQueryReturn(r) ==
    /\ bgpc = "query"
    /\ now >= wake
    /\ ~(kind = "cpu" /\ delay < 0)
    /\ log' = Append(log, r)
    /\ bgpc' = "stamp"
    /\ UNCHANGED <<now, env, mpc, caller_exc, block_raised, sampler,
                   stopped, time_log, thread, wake, stop_hist, plot_out>>

\* a variant of BgQueryFail: the failure strikes after the reading was
\* appended
BgQueryFail_Late ==
    /\ bgpc = "stamp"
    /\ bgpc' = "query_raised"
    /\ UNCHANGED <<now, env, mpc, caller_exc, block_raised, sampler,
                   stopped, log, time_log, thread, wake, stop_hist,
                   plot_out>>

\* the query raises: run() has no handler, the exception ends the thread
BgQueryFail ==
    /\ bgpc = "query"
    /\ bgpc' = "query_raised"
    /\ UNCHANGED <<now, env, mpc, caller_exc, block_raised, sampler,
                   stopped, log, time_log, thread, wake, stop_hist,
                   plot_out>>

\* a variant of BgStamp: the time log assigned instead of appended to
BgStamp_Overwrite ==
    /\ bgpc = "stamp"
    /\ time_log' = <<now - start_time>>
    /\ bgpc' = "sleep"
    /\ wake' = now + delay
    /\ UNCHANGED <<now, env, mpc, caller_exc, block_raised, sampler,
                   stopped, log, thread, stop_hist, plot_out>>

\* a variant of BgStamp: the subtraction reversed
BgStamp_Reversed ==
    /\ bgpc = "stamp"
    /\ time_log' = Append(time_log, start_time - now)
    /\ bgpc' = "sleep"
    /\ wake' = now + delay
    /\ UNCHANGED <<now, env, mpc, caller_exc, block_raised, sampler,
                   stopped, log, thread, stop_hist, plot_out>>

\* self.time_log.append(time.perf_counter() - self.start_time), then the
\* call of time.sleep(self.delay)
BgStamp ==
    /\ bgpc = "stamp"
    /\ time_log' = Append(time_log, now - start_time)
    /\ bgpc' = "sleep"
    /\ wake' = now + delay
    /\ UNCHANGED <<now, env, mpc, caller_exc, block_raised, sampler,
                   stopped, log, thread, stop_hist, plot_out>>

\* a variant of BgWake: the loop test is skipped after the sleep (a
\* do-while loop)
BgWake_NoTest ==
    /\ bgpc = "sleep"
    /\ delay >= 0
    /\ now >= wake
    /\ Len(log) < MaxLog
    /\ bgpc' = "query"
    /\ wake' = now + QueryBlocks
    /\ UNCHANGED <<now, env, mpc, caller_exc, block_raised, sampler,
                   stopped, log, time_log, thread, stop_hist, plot_out>>

\* time.sleep(self.delay) returns after at least delay
BgWake ==
    /\ bgpc = "sleep"
    /\ delay >= 0
    /\ now >= wake
    /\ bgpc' = "check"
    /\ UNCHANGED <<now, env, mpc, caller_exc, block_raised, sampler,
                   stopped, log, time_log, thread, wake, stop_hist,
                   plot_out>>

\* time.sleep raises ValueError for a negative length
BgSleepRaise ==
    /\ bgpc = "sleep"
    /\ delay < 0
    /\ bgpc' = "sleep_raised"
    /\ UNCHANGED <<now, env, mpc, caller_exc, block_raised, sampler,
                   stopped, log, time_log, thread, wake, stop_hist,
                   plot_out>>

Bg ==
    \/ BgCheck
    \/ \E r \in Readings(kind, cpu_count) : BgQueryReturn(r)
    \/ BgQueryFail
    \/ BgStamp
    \/ BgWake
    \/ BgSleepRaise

----------------------------------------------------------------------------
(* Time *)

BgWaiting == bgpc \in {"query", "sleep"} /\ now < wake

BgRunnable ==
    \/ bgpc = "stamp"
    \/ bgpc \in {"query", "sleep"} /\ now >= wake
    \/ bgpc = "check" /\ (stopped \/ Len(log) < MaxLog)

\* The clock advances.  Unless the scheduler may overrun, it does not
\* advance while the background thread is runnable.
Tick ==
    /\ mpc # "new"
    /\ now < MaxTime \/ BgWaiting
    /\ overrun \/ ~BgRunnable
    /\ now' = now + 1
    /\ UNCHANGED <<env, mpc, caller_exc, block_raised, sampler, stopped,
                   log, time_log, thread, bgpc, wake, stop_hist, plot_out>>

----------------------------------------------------------------------------
(* Specifications *)

Next ==
    \/ LoadPackage
    \/ \E k \in Kinds, d \in Delays :
          IF k = "cpu"
          THEN \E b \in Buffers, n \in CoreCounts : Construct(k, d, b, n)
          ELSE Construct(k, d, 0, 0)
    \/ Start
    \/ Stop
    \/ Enter
    \/ \E raised \in BOOLEAN : ExitScope(raised)
    \/ BgCheck
    \/ \E r \in Readings(kind, cpu_count) : BgQueryReturn(r)
    \/ BgQueryFail
    \/ BgStamp
    \/ BgWake
    \/ BgSleepRaise
    \/ Tick

Spec == Init /\ [][Next]_vars

\* The operating system schedules a runnable thread eventually, and time
\* passes.
FairSpec == Spec /\ WF_vars(Bg) /\ WF_vars(Tick)

\* The program up to a call of plot(), which ends the observation (plot()
\* finishes by blocking in plt.show(), or raises).
NextPlot ==
    \/ plot_out = NoPlot /\ Next
    \/ Plot

PlotSpec == Init /\ [][NextPlot]_vars

----------------------------------------------------------------------------
(* Runtime and BufferTime: scopes of the calling context *)

Messages == {"Time elapsed", ""}
SpanBuffers == {-1, 0, 1, 2}

\* the calling context is asleep inside BufferTime
Asleep == bt_pc \in {"entering", "exiting"}

\* Runtime.__init__(message)
RtConstruct(m) ==
    /\ "Runtime" \in exports
    /\ ~Asleep
    /\ rt_pc = "new"
    /\ rt_pc' = "made"
    /\ rt_message' = m
    /\ rt_start_time' = None
    /\ rt_end_time' = None
    /\ rt_elapsed' = None
    /\ UNCHANGED <<now, overrun, package, span, monitor, rt_out, rt_exc>>

\* Runtime.__enter__
RtEnter ==
    /\ ~Asleep
    /\ rt_pc \in {"made", "exited"}
    /\ rt_pc' = "block"
    /\ rt_start_time' = <<now>>
    /\ UNCHANGED <<now, overrun, package, span, monitor, rt_message,
                   rt_end_time, rt_elapsed, rt_out, rt_exc>>

\* value returned by Runtime.__exit__ (no return statement: None)
RtExitReturn == FALSE

\* a variant of RtExit: the subtraction reversed
RtExit_Reversed(raised) ==
    /\ ~Asleep
    /\ rt_pc = "block"
    /\ rt_pc' = "exited"
    /\ rt_end_time' = <<now>>
    /\ rt_elapsed' = <<rt_start_time[1] - rt_end_time'[1]>>
    /\ rt_out' = IF rt_message = "" THEN "nothing"
                 ELSE IF ~raised THEN "message"
                 ELSE "ended abruptly"
    /\ rt_exc' = IF raised /\ ~RtExitReturn THEN "BlockError" ELSE "none"
    /\ UNCHANGED <<now, overrun, package, span, monitor, rt_message,
                   rt_start_time>>

\* the with-body ends, normally or by raising (raised), and
\* Runtime.__exit__ runs
RtExit(raised) ==
    /\ ~Asleep
    /\ rt_pc = "block"
    /\ rt_pc' = "exited"
    /\ rt_end_time' = <<now>>
    /\ rt_elapsed' = <<rt_end_time'[1] - rt_start_time[1]>>
    /\ rt_out' = IF rt_message = "" THEN "nothing"
                 ELSE IF ~raised THEN "message"
                 ELSE "ended abruptly"
    /\ rt_exc' = IF raised /\ ~RtExitReturn THEN "BlockError" ELSE "none"
    /\ UNCHANGED <<now, overrun, package, span, monitor, rt_message,
                   rt_start_time>>

\* BufferTime.__init__(buffer_time)
BtConstruct(b) ==
    /\ "BufferTime" \in exports
    /\ bt_pc = "new"
    /\ bt_pc' = "made"
    /\ bt_buffer' = b
    /\ UNCHANGED <<now, overrun, package, timer, monitor, bt_wake,
                   bt_raised, bt_exc, bt_hist>>

\* BufferTime.__enter__ calls time.sleep(self._buffer_time), which raises
\* ValueError for a negative length: the with-body is then not entered
BtEnter ==
    /\ bt_pc \in {"made", "exited"}
    /\ now < MaxTime
    /\ IF bt_buffer < 0
       THEN /\ bt_pc' = "exited"
            /\ bt_exc' = "ValueError"
            /\ UNCHANGED <<bt_wake, bt_hist>>
       ELSE /\ bt_pc' = "entering"
            /\ bt_exc' = "none"
            /\ bt_wake' = now + bt_buffer
            /\ bt_hist' = [NoHist EXCEPT !.entered = now]
    /\ UNCHANGED <<now, overrun, package, timer, monitor, bt_buffer,
                   bt_raised>>

\* the sleep of __enter__ returns and the with-body begins
BtBegin ==
    /\ bt_pc = "entering"
    /\ now >= bt_wake
    /\ bt_pc' = "block"
    /\ bt_hist' = [bt_hist EXCEPT !.begun = now]
    /\ UNCHANGED <<now, overrun, package, timer, monitor, bt_buffer,
                   bt_wake, bt_raised, bt_exc>>

\* a variant of BtExit: __exit__ without its sleep
BtExit_NoSleep(raised) ==
    /\ bt_pc = "block"
    /\ bt_pc' = "exiting"
    /\ bt_raised' = raised
    /\ bt_wake' = now
    /\ bt_hist' = [bt_hist EXCEPT !.ended = now]
    /\ UNCHANGED <<now, overrun, package, timer, monitor, bt_buffer,
                   bt_exc>>

\* the with-body ends, normally or by raising (raised), and
\* BufferTime.__exit__ calls time.sleep(self._buffer_time)
BtExit(raised) ==
    /\ bt_pc = "block"
    /\ bt_pc' = "exiting"
    /\ bt_raised' = raised
    /\ bt_wake' = now + bt_buffer
    /\ bt_hist' = [bt_hist EXCEPT !.ended = now]
    /\ UNCHANGED <<now, overrun, package, timer, monitor, bt_buffer,
                   bt_exc>>

\* value returned by BufferTime.__exit__ (no return statement: None)
BtExitReturn == FALSE

\* the sleep of __exit__ returns; the with-statement re-raises the
\* exception of the body unless __exit__ returned a true value
BtLeave ==
    /\ bt_pc = "exiting"
    /\ now >= bt_wake
    /\ bt_pc' = "exited"
    /\ bt_exc' = IF bt_raised /\ ~BtExitReturn THEN "BlockError" ELSE "none"
    /\ bt_hist' = [bt_hist EXCEPT !.left = now]
    /\ UNCHANGED <<now, overrun, package, timer, monitor, bt_buffer,
                   bt_wake, bt_raised>>

\* time passes in the calling context (running a with-body, or asleep)
Pass ==
    /\ pkg = "loaded"
    /\ now < MaxTime \/ (Asleep /\ now < bt_wake)
    /\ now' = now + 1
    /\ UNCHANGED <<overrun, package, timer, span, monitor>>

NextScope ==
    \/ LoadPackage
    \/ \E m \in Messages : RtConstruct(m)
    \/ RtEnter
    \/ \E raised \in BOOLEAN : RtExit(raised)
    \/ \E b \in SpanBuffers : BtConstruct(b)
    \/ BtEnter
    \/ BtBegin
    \/ \E raised \in BOOLEAN : BtExit(raised)
    \/ BtLeave
    \/ Pass

ScopeSpec == Init /\ [][NextScope]_vars

----------------------------------------------------------------------------
(* Properties *)

Last(s) == s[Len(s)]

\* the configuration the constructor is specified to accept
ValidConfig == delay > 0 /\ buffer_time >= 0

\* C1: in every reachable state the number of recorded timestamps equals
\* the number of recorded readings, len(time_log) = len(log) (stated for
\* Samplers with a valid configuration).
C1_Claim == ValidConfig => Len(time_log) = Len(log)

\* C2: a Sampler exists only with a positive delay and a non-negative
\* buffer time: construction with delay <= 0 or buffer < 0 fails and
\* yields no Sampler.
C2_Claim == mpc # "new" => delay > 0 /\ buffer_time >= 0

\* C3: the background thread is never dead from a query failure while
\* stopped is still false and no error is recorded (stated for Samplers
\* with a valid configuration).
C3_Claim ==
    (ValidConfig /\ bgpc = "query_raised") => stopped /\ ErrorRecorded

\* C4: entering the scope starts the background thread; leaving it, by
\* normal completion or by an exception, sets stopped, and the exception of
\* the with-body (and nothing else) reaches the caller.
C4_Theorem ==
    [][ /\ (mpc = "ready" /\ mpc' = "block")
           => (~started /\ started' /\ bgpc' = "check")
        /\ (mpc = "block" /\ mpc' = "ready")
           => /\ stopped'
              /\ caller_exc' = IF block_raised' THEN "BlockError"
                               ELSE "none" ]_vars

C4_Witness ==
    /\ mpc = "ready"
    /\ started
    /\ stopped
    /\ block_raised
    /\ caller_exc = "BlockError"

\* C5: once the thread is started and stop() has been called, the thread
\* eventually terminates (by observing the flag, unless a query or sleep
\* raised first), and after it has terminated the log never changes.
C5_Theorem ==
    /\ (started /\ stopped) ~> Terminated
    /\ [][Terminated => UNCHANGED <<log, time_log, bgpc>>]_vars

C5_Witness ==
    /\ started
    /\ stopped
    /\ bgpc = "done"
    /\ Len(log) >= 1
    /\ stop_len[1] < Len(log)

\* C6: after stop() has returned, at most one more reading and at most one
\* more timestamp are appended.
C6_Theorem ==
    stop_len # NoStop =>
        /\ Len(log) <= stop_len[1] + 1
        /\ Len(time_log) <= stop_len[2] + 1

C6_Witness ==
    /\ stop_len # NoStop
    /\ stop_len[1] = stop_len[2]
    /\ Len(log) = stop_len[1] + 1
    /\ Len(time_log) = stop_len[2] + 1
    /\ stop_len[1] >= 1

\* C7: with a valid configuration and a prompt scheduler, consecutive samples are
\* delay apart (less than one delay off): one suspension of delay per
\* iteration.
C7_Claim ==
    (~overrun /\ ValidConfig) =>
        \A i \in 1..(Len(time_log) - 1) :
            /\ time_log[i + 1] - time_log[i] >= delay
            /\ time_log[i + 1] - time_log[i] < 2 * delay

\* C8: the time log is in non-decreasing order, and strictly increasing
\* when delay > 0.
C8_Theorem ==
    \A i \in 1..(Len(time_log) - 1) :
        /\ time_log[i] <= time_log[i + 1]
        /\ delay > 0 => time_log[i] < time_log[i + 1]

C8_Witness ==
    /\ delay > 0
    /\ Len(time_log) >= 2
    /\ overrun

\* C9: plot() on an empty time log, or with 2 * buffer >= the last elapsed
\* value, raises at its guard and computes no average.
C9_Claim ==
    (/\ ValidConfig
     /\ plot_out.err # "nocall"
     /\ \/ plot_out.times = <<>>
        \/ 2 * buffer_time >= Last(plot_out.times))
    => /\ plot_out.at = "guard"
       /\ plot_out.total = NotComputed
       /\ plot_out.cores = <<>>

\* C10: plot() on a non-empty log (as many readings as timestamps) with
\* 2 * buffer < the last elapsed value succeeds, and every mean it titles
\* is finite: the window of samples strictly between buffer and
\* last - buffer is not empty.
C10_Claim ==
    (/\ ValidConfig
     /\ plot_out.err # "nocall"
     /\ plot_out.times # <<>>
     /\ Len(plot_out.rows) = Len(plot_out.times)
     /\ 2 * buffer_time < Last(plot_out.times))
    => /\ plot_out.err = "none"
       /\ plot_out.total # NotComputed
       /\ IsFinite(plot_out.total)
       /\ \A c \in 1..Len(plot_out.cores) : IsFinite(plot_out.cores[c])

\* C11: start() records the start timestamp: in the step that starts the
\* thread, start_time becomes the clock value of that moment (stated for
\* Samplers with a valid configuration).
C11_Claim ==
    [][(ValidConfig /\ ~started /\ started') => start_time' = now]_vars

\* C16: importing the package never fails; after it _GPU is true exactly
\* when the GPUtil backend could be imported and exactly when MonitorGPU is
\* exported, and MonitorCPU, Runtime and BufferTime are exported either way.
C16_Theorem ==
    /\ pkg # "failed"
    /\ pkg = "loaded" =>
          /\ GPU = gputil
          /\ GPU <=> ("MonitorGPU" \in exports)
          /\ {"MonitorCPU", "Runtime", "BufferTime"} \subseteq exports

C16_Witness ==
    /\ pkg = "loaded"
    /\ ~gputil
    /\ ~GPU
    /\ "MonitorGPU" \notin exports
    /\ kind = "cpu"
    /\ started

IsPrefix(s, t) == Len(s) <= Len(t) /\ SubSeq(t, 1, Len(s)) = s

\* C14: stopped is false after construction, only becomes true, and is
\* written only by a (first) call of stop().
C14_Theorem ==
    [][ /\ (mpc = "new" /\ mpc' = "ready") => ~stopped'
        /\ stopped => stopped'
        /\ (stopped' # stopped) => (stop_len = NoStop /\ stop_len' # NoStop)
      ]_vars

C14_Witness ==
    /\ stopped
    /\ bgpc = "done"
    /\ caller_exc = "RuntimeError"
    /\ Len(log) >= 1

\* C15: the log and the time log are empty until the thread is started,
\* every step extends them at most by appending, and only a step of the
\* background thread changes them.
C15_Theorem ==
    /\ [](~started => log = <<>> /\ time_log = <<>>)
    /\ [][ /\ IsPrefix(log, log')
           /\ IsPrefix(time_log, time_log')
           /\ (log' # log \/ time_log' # time_log)
              => /\ bgpc \in {"query", "stamp"}
                 /\ bgpc' # bgpc
                 /\ <<mpc, caller_exc, stopped, started>>'
                    = <<mpc, caller_exc, stopped, started>> ]_vars

C15_Witness ==
    /\ Len(log) >= 2
    /\ Len(time_log) >= 2
    /\ stopped

\* C17: at most one run() context is ever spawned for a Sampler: a start()
\* of a started thread raises RuntimeError and spawns nothing.
C17_Theorem ==
    /\ spawned <= 1
    /\ started <=> spawned = 1
    /\ caller_exc = "RuntimeError" => spawned = 1

C17_Witness ==
    /\ caller_exc = "RuntimeError"
    /\ spawned = 1
    /\ stopped
    /\ bgpc = "done"

\* C19: len(log) - len(time_log) is 0 or 1, and 0 whenever the background
\* thread is not between its two appends; in particular after a failed
\* query.
C19_Theorem ==
    /\ Len(log) - Len(time_log) \in {0, 1}
    /\ bgpc # "stamp" => Len(log) = Len(time_log)

C19_Witness ==
    /\ bgpc = "query_raised"
    /\ Len(log) >= 1
    /\ Len(log) = Len(time_log)

\* C20: when stop() was called before start(), the log stays empty, the
\* thread never queries, and once started it terminates at its first loop
\* test.
C20_Theorem ==
    /\ [](early_stop => /\ log = <<>>
                        /\ time_log = <<>>
                        /\ bgpc \in {"idle", "check", "done"})
    /\ (early_stop /\ started) ~> (bgpc = "done")

C20_Witness ==
    /\ early_stop
    /\ started
    /\ bgpc = "done"
    /\ now >= 1

\* C18: the per-core loop of plot() never indexes a channel the readings
\* do not have: it raises no IndexError at a panel.
C18_Claim ==
    (ValidConfig /\ plot_out.err # "nocall") => plot_out.at # "panel"

\* C12: Runtime.elapsed is None until the scope has exited; after an exit
\* it is end_time - start_time and not negative; an exit by an exception
\* (printed as "ended abruptly") re-raises it, a normal exit raises
\* nothing.
C12_Theorem ==
    /\ rt_end_time = None => rt_elapsed = None
    /\ rt_pc \in {"new", "made"} => rt_elapsed = None
    /\ rt_pc = "exited" =>
          /\ rt_elapsed # None
          /\ rt_elapsed[1] = rt_end_time[1] - rt_start_time[1]
          /\ rt_elapsed[1] >= 0
    /\ rt_out = "ended abruptly" => rt_exc = "BlockError"
    /\ rt_out = "message" => rt_exc = "none"

C12_Witness ==
    /\ rt_pc = "exited"
    /\ rt_out = "ended abruptly"
    /\ rt_exc = "BlockError"
    /\ rt_elapsed # None
    /\ rt_elapsed[1] >= 1

\* C13: BufferTime blocks the caller for buffer_time on entry and again
\* on exit, also when the body raised (the exception is then re-raised),
\* so a completed scope lasted at least 2 * buffer_time plus the duration
\* of its body; buffer_time never changes.
C13_Theorem ==
    /\ [](/\ bt_hist.begun # -1
             => bt_hist.begun - bt_hist.entered >= bt_buffer
          /\ bt_hist.left # -1
             => /\ bt_hist.left - bt_hist.ended >= bt_buffer
                /\ bt_hist.left - bt_hist.entered
                   >= 2 * bt_buffer + (bt_hist.ended - bt_hist.begun)
                /\ bt_exc = IF bt_raised THEN "BlockError" ELSE "none")
    /\ [][bt_pc # "new" => bt_buffer' = bt_buffer]_vars

C13_Witness ==
    /\ bt_hist.left # -1
    /\ bt_buffer = 1
    /\ bt_raised
    /\ bt_exc = "BlockError"
    /\ bt_hist.ended - bt_hist.begun >= 1

====
